---- MODULE Spec2Model ----
(***************************************************************************)
(* A model of leep (src/main.c): the circular message queue                *)
(* (messages / messagesIndex / messagesLen), the message display timer of  *)
(* draw(), and the player's velocity-transition state machine.             *)
(*                                                                         *)
(* Messages are heap blocks.  A block is named by a positive integer, NULL *)
(* is 0, and heap[b] records whether block b was never allocated, is live, *)
(* or has been freed.                                                      *)
(*                                                                         *)
(* Floating-point vectors are modelled in fixed point: a coordinate is an  *)
(* integer number of 1/Unit, and every product is rounded to the nearest   *)
(* representable value.                                                    *)
(***************************************************************************)
EXTENDS Integers, Sequences, FiniteSets

(***************************************************************************)
(* Bounds of the model.  The source sets MAX_MESSAGES_LEN to 100           *)
(* (src/main.c:32); the queue code is parametric in it and the model runs  *)
(* it with a small capacity.                                               *)
(***************************************************************************)
MAX_MESSAGES_LEN == 3
MaxTime == 7
MaxTicks == 32
MaxMoves == 2
MaxDecelTicks == 105
MaxFrameMoves == 1
Unit == 1000

\* messagesNew is called at most MaxAllocs times: enough to fill the queue
\* and push twice more.
MaxAllocs == MAX_MESSAGES_LEN + 2

NULL == 0
PLAYER_VEL_TRANSITION_FRAMES == 30
MESSAGE_LIFE == 2

Blocks == 1..MaxAllocs
Slots == 0..(MAX_MESSAGES_LEN - 1)

VARIABLES
    messages,        \* static const char *messages[MAX_MESSAGES_LEN]
    messagesIndex,   \* static size_t messagesIndex
    messagesLen,     \* static size_t messagesLen
    message,         \* draw(): static const char *message
    messageBirth,    \* draw(): static double messageBirth
    player,          \* static Player player
    moveNum,         \* playerMove(): static int moveNum
    now,             \* GetTime(), in seconds
    heap,            \* allocation state of every block
    pc,              \* "idle" between commands, "drain" inside a clear loop
    stderrDrop,      \* the latest messagesPut wrote the DROPPING line
    putLost,         \* the latest messagesPut made a queued message vanish
    lastGet,         \* value returned by the latest messagesGet
    lastOp,          \* the operation that ran last
    popped,          \* values returned by messagesGet on a non-empty queue
    interleaved,     \* some messagesPut ran after a messagesGet returned
    assertFailed,    \* the assert of messagesGet has tripped
    doubleFree,      \* a freed block was freed again
    useAfterFree,    \* draw() read a freed block
    ticks,           \* number of playerUpdate calls so far
    stopDeferred,    \* playerStop ran while accelerating, no playerMove since
    fullPut,         \* some messagesPut ran on a queue of MAX_MESSAGES_LEN or more
    quiet            \* frames in a row without movement input, up to T + 1

queueVars == <<messages, messagesIndex, messagesLen>>
timerVars == <<message, messageBirth>>
playerVars == <<player, moveNum, ticks, stopDeferred, quiet>>
heapVars == <<heap, doubleFree, useAfterFree>>
putVars == <<stderrDrop, putLost, fullPut>>
getVars == <<lastGet, popped, assertFailed>>
vars == <<messages, messagesIndex, messagesLen, message, messageBirth, player,
          moveNum, now, heap, pc, stderrDrop, putLost, lastGet, lastOp, popped,
          interleaved, assertFailed, doubleFree, useAfterFree, ticks,
          stopDeferred, fullPut, quiet>>

----------------------------------------------------------------------------
(***************************************************************************)
(* The message queue.                                                      *)
(***************************************************************************)

\* A queue value: the three globals together.
Queue(ms, idx, len) ==
    [messages |-> ms, messagesIndex |-> idx, messagesLen |-> len]

TheQueue == Queue(messages, messagesIndex, messagesLen)

isInQueue(q, index) ==
    index >= q.messagesIndex /\ index < q.messagesIndex + q.messagesLen

\* messagesPut that writes one slot past the end of the window.
messagesPut_SkipsSlot(q, m) ==
    LET drop == q.messagesLen > MAX_MESSAGES_LEN
        len1 == IF drop THEN q.messagesLen - 1 ELSE q.messagesLen
        idx1 == IF drop THEN (q.messagesIndex + 1) % MAX_MESSAGES_LEN
                        ELSE q.messagesIndex
        slot == (idx1 + len1 + 1) % MAX_MESSAGES_LEN
    IN  [q |-> Queue([q.messages EXCEPT ![slot] = m], idx1, len1 + 1),
         reported |-> drop]

\* messagesPut(m): the new queue, and whether the drop was reported.
messagesPut(q, m) ==
    LET drop == q.messagesLen > MAX_MESSAGES_LEN
        len1 == IF drop THEN q.messagesLen - 1 ELSE q.messagesLen
        idx1 == IF drop THEN (q.messagesIndex + 1) % MAX_MESSAGES_LEN
                        ELSE q.messagesIndex
        slot == (idx1 + len1) % MAX_MESSAGES_LEN
    IN  [q |-> Queue([q.messages EXCEPT ![slot] = m], idx1, len1 + 1),
         reported |-> drop]

\* A slip in the emptiness test: a queue of one message counts as empty.
messagesIsEmpty_OffByOne(q) == q.messagesLen <= 1

messagesIsEmpty(q) == q.messagesLen = 0

\* messagesGet without its last assignment: the slot keeps the pointer.
messagesGet_KeepsSlot(q) ==
    IF q.messagesLen = 0
    THEN [q |-> q, out |-> NULL, assertOk |-> TRUE]
    ELSE LET outIndex == q.messagesIndex
         IN  [q |-> Queue(q.messages,
                          (q.messagesIndex + 1) % MAX_MESSAGES_LEN,
                          q.messagesLen - 1),
              out |-> q.messages[outIndex],
              assertOk |-> isInQueue(q, outIndex)]

\* messagesGet without the test for the empty queue.
messagesGet_NoEmptyCheck(q) ==
    LET outIndex == q.messagesIndex
    IN  [q |-> Queue([q.messages EXCEPT ![outIndex] = NULL],
                     (q.messagesIndex + 1) % MAX_MESSAGES_LEN,
                     q.messagesLen - 1),
         out |-> q.messages[outIndex],
         assertOk |-> isInQueue(q, outIndex)]

\* messagesGet(): the new queue, the value returned, and whether the assert
\* held.
messagesGet(q) ==
    IF q.messagesLen = 0
    THEN [q |-> q, out |-> NULL, assertOk |-> TRUE]
    ELSE LET outIndex == q.messagesIndex
         IN  [q |-> Queue([q.messages EXCEPT ![outIndex] = NULL],
                          (q.messagesIndex + 1) % MAX_MESSAGES_LEN,
                          q.messagesLen - 1),
              out |-> q.messages[outIndex],
              assertOk |-> isInQueue(q, outIndex)]

\* free(p) / MemFree(p): free(NULL) does nothing.
Free(h, p) == IF p = NULL THEN h ELSE [h EXCEPT ![p] = "freed"]

IsDoubleFree(h, p) == p # NULL /\ h[p] = "freed"

\* MemAlloc: a block that was never handed out.
FreshBlock(h) == CHOOSE b \in Blocks :
                    /\ h[b] = "unalloc"
                    /\ \A c \in Blocks : h[c] = "unalloc" => b <= c

\* The blocks some slot of the array refers to.
Stored(ms) == {ms[i] : i \in Slots} \ {NULL}

\* The slots of the logical window [messagesIndex, messagesIndex+messagesLen)
\* taken modulo MAX_MESSAGES_LEN.
Window(q) == {(q.messagesIndex + i) % MAX_MESSAGES_LEN :
                 i \in 0..(q.messagesLen - 1)}

SetQueue(q) ==
    /\ messages' = q.messages
    /\ messagesIndex' = q.messagesIndex
    /\ messagesLen' = q.messagesLen

\* What one messagesGet call followed by free() of its result does.
GetAndFree ==
    LET g == messagesGet(TheQueue)
    IN  /\ SetQueue(g.q)
        /\ lastGet' = g.out
        /\ popped' = IF messagesLen = 0 THEN popped ELSE Append(popped, g.out)
        /\ assertFailed' = (assertFailed \/ ~g.assertOk)
        /\ heap' = Free(heap, g.out)
        /\ doubleFree' = (doubleFree \/ IsDoubleFree(heap, g.out))
        /\ UNCHANGED useAfterFree

----------------------------------------------------------------------------
(***************************************************************************)
(* Vectors and the player.                                                 *)
(***************************************************************************)

\* a / b rounded to the nearest integer, b > 0.
RoundDiv(a, b) == (2 * a + b) \div (2 * b)

RECURSIVE SqrtSearch(_, _, _)
SqrtSearch(n, lo, hi) ==
    IF lo >= hi THEN lo
    ELSE LET mid == (lo + hi + 1) \div 2
         IN  IF mid * mid <= n THEN SqrtSearch(n, mid, hi)
                               ELSE SqrtSearch(n, lo, mid - 1)

\* sqrtf, rounded to the nearest integer.
Sqrt(n) == LET r == SqrtSearch(n, 0, 46340)
           IN  IF n - r * r > r THEN r + 1 ELSE r

Vector2Zero == <<0, 0>>

Vector2Length(v) == Sqrt(v[1] * v[1] + v[2] * v[2])

\* Vector2Scale(v, num/den)
Vector2Scale(v, num, den) == <<RoundDiv(v[1] * num, den), RoundDiv(v[2] * num, den)>>

\* raymath: a zero vector is returned as it is.
Vector2Normalize(v) ==
    LET length == Vector2Length(v)
    IN  IF length > 0 THEN <<RoundDiv(v[1] * Unit, length), RoundDiv(v[2] * Unit, length)>>
                      ELSE v

\* Vector2Polate(curr, dest, t) with t = tn / PLAYER_VEL_TRANSITION_FRAMES:
\* curr + d*0.5*t*t + d*t.
Vector2Polate(curr, dest, tn) ==
    LET T == PLAYER_VEL_TRANSITION_FRAMES
        dx == dest[1] - curr[1]
        dy == dest[2] - curr[2]
    IN  <<curr[1] + RoundDiv(dx * (tn * tn + 2 * T * tn), 2 * T * T),
          curr[2] + RoundDiv(dy * (tn * tn + 2 * T * tn), 2 * T * T)>>

\* setup(): the player it creates.
setup ==
    [pos |-> Vector2Zero, vel |-> Vector2Zero, targetVel |-> Vector2Zero,
     maxVel |-> 10, radius |-> 10, velTransitionTime |-> -1]

\* playerUpdate that snaps a slow decelerating player to rest.
playerUpdate_SnapsToZero(p) ==
    LET moved == [p EXCEPT !.pos = <<p.pos[1] + p.vel[1], p.pos[2] + p.vel[2]>>]
    IN  IF p.velTransitionTime > 0
        THEN [moved EXCEPT
                !.vel = Vector2Polate(p.vel, p.targetVel,
                            PLAYER_VEL_TRANSITION_FRAMES - p.velTransitionTime),
                !.velTransitionTime = p.velTransitionTime - 1]
        ELSE IF p.velTransitionTime = -1
        THEN [moved EXCEPT
                !.vel = IF p.vel[1] * p.vel[1] + p.vel[2] * p.vel[2] < Unit * Unit
                        THEN Vector2Zero
                        ELSE Vector2Scale(p.vel, 9, 10)]
        ELSE moved

\* playerUpdate with the countdown test written >= 0: the tick after the
\* countdown has run out takes it to -1.
playerUpdate_Underflow(p) ==
    LET moved == [p EXCEPT !.pos = <<p.pos[1] + p.vel[1], p.pos[2] + p.vel[2]>>]
    IN  IF p.velTransitionTime >= 0
        THEN [moved EXCEPT
                !.vel = Vector2Polate(p.vel, p.targetVel,
                            PLAYER_VEL_TRANSITION_FRAMES - p.velTransitionTime),
                !.velTransitionTime = p.velTransitionTime - 1]
        ELSE IF p.velTransitionTime = -1
        THEN [moved EXCEPT !.vel = Vector2Scale(p.vel, 9, 10)]
        ELSE moved

playerUpdate(p) ==
    LET moved == [p EXCEPT !.pos = <<p.pos[1] + p.vel[1], p.pos[2] + p.vel[2]>>]
    IN  IF p.velTransitionTime > 0
        THEN [moved EXCEPT
                !.vel = Vector2Polate(p.vel, p.targetVel,
                            PLAYER_VEL_TRANSITION_FRAMES - p.velTransitionTime),
                !.velTransitionTime = p.velTransitionTime - 1]
        ELSE IF p.velTransitionTime = -1
        THEN [moved EXCEPT !.vel = Vector2Scale(p.vel, 9, 10)]
        ELSE moved

\* playerStop left empty.
playerStop_Forgets(p) == p

\* playerStop that also brings the player to rest.
playerStop_ZeroesVel(p) ==
    IF p.velTransitionTime = 0
    THEN [p EXCEPT !.velTransitionTime = -1, !.vel = Vector2Zero]
    ELSE p

playerStop(p) ==
    IF p.velTransitionTime = 0 THEN [p EXCEPT !.velTransitionTime = -1] ELSE p

\* maxVel / Vector2Length(direction) < 1.0; a zero length makes the quotient
\* +infinity, which is not below 1.
OverMaxVel(p, direction) ==
    LET length == Vector2Length(direction)
    IN  IF length = 0 THEN FALSE ELSE p.maxVel * Unit < length

\* playerMove that starts the countdown only when none is running.
playerMove_KeepsCountdown(p, direction) ==
    [p EXCEPT !.velTransitionTime = IF p.velTransitionTime > 0
                                    THEN p.velTransitionTime
                                    ELSE PLAYER_VEL_TRANSITION_FRAMES,
              !.targetVel = IF OverMaxVel(p, direction)
                            THEN Vector2Scale(Vector2Normalize(direction), p.maxVel, 1)
                            ELSE direction]

playerMove(p, direction) ==
    [p EXCEPT !.velTransitionTime = PLAYER_VEL_TRANSITION_FRAMES,
              !.targetVel = IF OverMaxVel(p, direction)
                            THEN Vector2Scale(Vector2Normalize(direction), p.maxVel, 1)
                            ELSE direction]

\* The directions playerMove is called with: a key (update(), KEY_D) and
\* mouse clicks (m - player.pos) on the player itself and beyond maxVel.
KeyDirections == {<<10 * Unit, 0>>}
MouseDirections == {<<0, 0>>, <<12 * Unit, 16 * Unit>>}
Directions == KeyDirections \cup MouseDirections

----------------------------------------------------------------------------
(***************************************************************************)
(* The state after main() has run setup(), and the operations.             *)
(***************************************************************************)

Init ==
    /\ messages = [i \in Slots |-> NULL]
    /\ messagesIndex = 0
    /\ messagesLen = 0
    /\ message = NULL
    /\ messageBirth = 0
    /\ player = setup
    /\ moveNum = 0
    /\ now = 0
    /\ heap = [b \in Blocks |-> "unalloc"]
    /\ pc = "idle"
    /\ stderrDrop = FALSE
    /\ putLost = FALSE
    /\ lastGet = NULL
    /\ lastOp = "setup"
    /\ popped = <<>>
    /\ interleaved = FALSE
    /\ assertFailed = FALSE
    /\ doubleFree = FALSE
    /\ useAfterFree = FALSE
    /\ ticks = 0
    /\ stopDeferred = FALSE
    /\ fullPut = FALSE
    /\ quiet = 0

\* messagesNew(fmt, ...): allocate the text and push it.
MessagesNew ==
    /\ pc = "idle"
    /\ \E b \in Blocks : heap[b] = "unalloc"
    /\ LET buff == FreshBlock(heap)
           r == messagesPut(TheQueue, buff)
       IN  /\ heap' = [heap EXCEPT ![buff] = "live"]
           /\ SetQueue(r.q)
           /\ stderrDrop' = r.reported
           /\ putLost' = (Stored(messages) \ Stored(r.q.messages) # {})
           /\ fullPut' = (fullPut \/ messagesLen >= MAX_MESSAGES_LEN)
    /\ interleaved' = (interleaved \/ popped # <<>>)
    /\ lastOp' = "put"
    /\ UNCHANGED <<timerVars, playerVars, now, pc, getVars, doubleFree, useAfterFree>>

\* update(), KEY_BACKSPACE: free((void *)messagesGet()).
Dequeue ==
    /\ pc = "idle"
    /\ GetAndFree
    /\ lastOp' = "get"
    /\ UNCHANGED <<timerVars, playerVars, now, pc, putVars, interleaved>>

\* update(), KEY_C: enter the loop while (!messagesIsEmpty()).
ClearKey ==
    /\ pc = "idle"
    /\ pc' = "drain"
    /\ lastOp' = "clear"
    /\ UNCHANGED <<queueVars, timerVars, playerVars, now, heapVars, putVars,
                   getVars, interleaved>>

\* update(), KEY_R: setup(), then enter the same loop.
ResetKey ==
    /\ pc = "idle"
    /\ player' = setup
    /\ stopDeferred' = FALSE
    /\ pc' = "drain"
    /\ lastOp' = "reset"
    /\ UNCHANGED <<queueVars, timerVars, moveNum, ticks, quiet, now, heapVars,
                   putVars, getVars, interleaved>>

\* One iteration of while (!messagesIsEmpty()) free((void *)messagesGet()).
DrainStep ==
    /\ pc = "drain"
    /\ ~messagesIsEmpty(TheQueue)
    /\ GetAndFree
    /\ UNCHANGED <<timerVars, playerVars, now, pc, putVars, lastOp, interleaved>>

\* The loop condition fails and the command returns.
DrainEnd ==
    /\ pc = "drain"
    /\ messagesIsEmpty(TheQueue)
    /\ pc' = "idle"
    /\ UNCHANGED <<queueVars, timerVars, playerVars, now, heapVars, putVars,
                   getVars, lastOp, interleaved>>

\* The timer test written >=: a message is replaced after exactly
\* MESSAGE_LIFE seconds.
Expired_AtLife == now - messageBirth >= MESSAGE_LIFE

\* The timer of draw() has expired.
Expired == now - messageBirth > MESSAGE_LIFE

\* draw() read a freed block while listing the queue q on a heap h.
ReadsFreed(q, h) ==
    \E i \in 0..(q.messagesLen - 1) :
        LET nextMessage == q.messages[(i + q.messagesIndex) % MAX_MESSAGES_LEN]
        IN  nextMessage # NULL /\ h[nextMessage] = "freed"

\* draw(): the message timer, then the list of the pending messages.
Draw ==
    /\ pc = "idle"
    /\ IF Expired
       THEN LET g == messagesGet(TheQueue)
            IN  /\ heap' = Free(heap, message)
                /\ doubleFree' = (doubleFree \/ IsDoubleFree(heap, message))
                /\ SetQueue(g.q)
                /\ message' = g.out
                /\ messageBirth' = IF g.out # NULL THEN now ELSE messageBirth
                /\ lastGet' = g.out
                /\ popped' = IF messagesLen = 0 THEN popped
                                                ELSE Append(popped, g.out)
                /\ assertFailed' = (assertFailed \/ ~g.assertOk)
       ELSE UNCHANGED <<heap, doubleFree, queueVars, timerVars, getVars>>
    /\ useAfterFree' = (useAfterFree \/
                           ReadsFreed(Queue(messages', messagesIndex', messagesLen'), heap'))
    /\ lastOp' = "draw"
    /\ UNCHANGED <<playerVars, now, pc, putVars, interleaved>>

\* Time passes between two frames.
Elapse ==
    /\ pc = "idle"
    /\ now < MaxTime
    /\ now' = now + 1
    /\ UNCHANGED <<queueVars, timerVars, playerVars, heapVars, pc, putVars,
                   getVars, lastOp, interleaved>>

Next ==
    \/ MessagesNew
    \/ Dequeue
    \/ ClearKey
    \/ ResetKey
    \/ DrainStep
    \/ DrainEnd
    \/ Draw
    \/ Elapse

Spec == Init /\ [][Next]_vars

\* A command that has entered its loop keeps running: the frame loop of
\* main() is a single thread and nothing else is scheduled.
FairSpec == Spec /\ WF_vars(DrainStep) /\ WF_vars(DrainEnd)

----------------------------------------------------------------------------
(***************************************************************************)
(* The player on its own: playerMove, playerStop and playerUpdate called   *)
(* in any order.                                                           *)
(***************************************************************************)

PlayerMove(direction) ==
    /\ pc = "idle"
    /\ moveNum < MaxMoves
    /\ player' = playerMove(player, direction)
    /\ moveNum' = moveNum + 1
    /\ stopDeferred' = FALSE
    /\ UNCHANGED <<queueVars, timerVars, ticks, quiet, now, heapVars, pc,
                   putVars, getVars, lastOp, interleaved>>

PlayerStop ==
    /\ pc = "idle"
    /\ player' = playerStop(player)
    /\ stopDeferred' = (stopDeferred \/ player.velTransitionTime > 0)
    /\ UNCHANGED <<queueVars, timerVars, moveNum, ticks, quiet, now, heapVars,
                   pc, putVars, getVars, lastOp, interleaved>>

PlayerUpdateWithin(bound) ==
    /\ pc = "idle"
    /\ ticks < bound
    /\ player' = playerUpdate(player)
    /\ ticks' = ticks + 1
    /\ UNCHANGED <<queueVars, timerVars, moveNum, stopDeferred, quiet, now,
                   heapVars, pc, putVars, getVars, lastOp, interleaved>>

PlayerUpdate == PlayerUpdateWithin(MaxTicks)

PlayerNext ==
    \/ \E direction \in Directions : PlayerMove(direction)
    \/ PlayerStop
    \/ PlayerUpdate

PlayerSpec == Init /\ [][PlayerNext]_vars

(***************************************************************************)
(* A long run of the player: it is sent off right after setup() and then   *)
(* only stopped and ticked, for long enough to see where the deceleration  *)
(* ends.                                                                   *)
(***************************************************************************)

FirstMove(direction) == ticks = 0 /\ PlayerMove(direction)

LongUpdate == PlayerUpdateWithin(MaxDecelTicks)

DecelNext ==
    \/ \E direction \in Directions : FirstMove(direction)
    \/ PlayerStop
    \/ LongUpdate

DecelSpec == Init /\ [][DecelNext]_vars

----------------------------------------------------------------------------
(***************************************************************************)
(* The frame loop of main(): every frame runs update() and then draw().    *)
(* A frame is one step.  Its stages are functions on the world, the record *)
(* of everything a frame can change.                                       *)
(***************************************************************************)

TheWorld ==
    [player |-> player, moveNum |-> moveNum, stopDeferred |-> stopDeferred,
     q |-> TheQueue, heap |-> heap, message |-> message,
     messageBirth |-> messageBirth, lastGet |-> lastGet, popped |-> popped,
     assertFailed |-> assertFailed, doubleFree |-> doubleFree,
     useAfterFree |-> useAfterFree, stderrDrop |-> stderrDrop,
     putLost |-> putLost, fullPut |-> fullPut, interleaved |-> interleaved]

\* update(): playerUpdate(&player).
WTick(w) == [w EXCEPT !.player = playerUpdate(@)]

\* messagesNew(...).
WNew(w) ==
    LET buff == FreshBlock(w.heap)
        r == messagesPut(w.q, buff)
    IN  [w EXCEPT !.heap = [@ EXCEPT ![buff] = "live"],
                  !.q = r.q,
                  !.stderrDrop = r.reported,
                  !.putLost = (Stored(w.q.messages) \ Stored(r.q.messages) # {}),
                  !.fullPut = (@ \/ w.q.messagesLen >= MAX_MESSAGES_LEN),
                  !.interleaved = (@ \/ w.popped # <<>>)]

\* playerMove(&player, direction).
WMove(w, direction) ==
    [w EXCEPT !.player = playerMove(@, direction),
              !.moveNum = @ + 1,
              !.stopDeferred = FALSE]

\* update(): a click of the left mouse button, direction away from the
\* player.
WClick(w, direction) == WMove(WNew(w), direction)

\* update(): playerStop(&player).
WStop(w) ==
    [w EXCEPT !.player = playerStop(@),
              !.stopDeferred = (@ \/ w.player.velTransitionTime > 0)]

\* free((void *)messagesGet()).
WGetFree(w) ==
    LET g == messagesGet(w.q)
    IN  [w EXCEPT !.q = g.q,
                  !.lastGet = g.out,
                  !.popped = IF w.q.messagesLen = 0 THEN @ ELSE Append(@, g.out),
                  !.assertFailed = (@ \/ ~g.assertOk),
                  !.heap = Free(@, g.out),
                  !.doubleFree = (@ \/ IsDoubleFree(w.heap, g.out))]

\* while (!messagesIsEmpty()) free((void *)messagesGet());
RECURSIVE WDrain(_)
WDrain(w) == IF messagesIsEmpty(w.q) THEN w ELSE WDrain(WGetFree(w))

\* update(): switch (GetKeyPressed()).
WKey(w, key) ==
    CASE key = "R" -> WDrain([w EXCEPT !.player = setup, !.stopDeferred = FALSE])
      [] key = "C" -> WDrain(w)
      [] key = "BACKSPACE" -> WGetFree(w)
      [] key = "D" -> WMove(w, <<10 * Unit, 0>>)
      [] OTHER -> w

\* draw() at time t: the message timer, then the list of pending messages.
WDraw(w, t) ==
    LET g == messagesGet(w.q)
        w1 == IF t - w.messageBirth > MESSAGE_LIFE
              THEN [w EXCEPT
                      !.heap = Free(@, w.message),
                      !.doubleFree = (@ \/ IsDoubleFree(w.heap, w.message)),
                      !.q = g.q,
                      !.message = g.out,
                      !.messageBirth = IF g.out # NULL THEN t ELSE @,
                      !.lastGet = g.out,
                      !.popped = IF w.q.messagesLen = 0 THEN @
                                                       ELSE Append(@, g.out),
                      !.assertFailed = (@ \/ ~g.assertOk)]
              ELSE w
    IN  [w1 EXCEPT !.useAfterFree = (@ \/ ReadsFreed(w1.q, w1.heap))]

\* What a frame polls: a click (its direction from the player, or no
\* click), whether W, A, S, D or the mouse button is down, and the key
\* GetKeyPressed() returns.  A click or a pressed D is also down, and a
\* frame with a click has no key pressed.  Of the movement keys only D is
\* pressed, and the arrow keys, which only shift pos, are not pressed at
\* all.
NoClick == <<>>
FrameClicks == {NoClick, <<12 * Unit, 16 * Unit>>}
FrameKeys == {"none", "R", "C", "BACKSPACE", "D"}
FrameInputs ==
    {in \in [click : FrameClicks, down : BOOLEAN, key : FrameKeys] :
        /\ (in.click # NoClick \/ in.key = "D") => in.down
        /\ in.click # NoClick => in.key = "none"}

\* The number of playerMove calls of a frame.
MovesOf(in) == (IF in.click # NoClick THEN 1 ELSE 0) + (IF in.key = "D" THEN 1 ELSE 0)

\* update(): the tick first, then the input.
WUpdate(w, in) ==
    LET w1 == WTick(w)
        w2 == IF in.click # NoClick THEN WClick(w1, in.click) ELSE w1
        w3 == IF ~in.down THEN WStop(w2) ELSE w2
    IN  WKey(w3, in.key)

\* One pass of the loop in main(): update(), then draw().  A frame takes
\* one second.
Frame(in) ==
    /\ pc = "idle"
    /\ ticks < MaxTicks
    /\ moveNum + MovesOf(in) <= MaxFrameMoves
    /\ in.click # NoClick => \E b \in Blocks : heap[b] = "unalloc"
    /\ now' = now + 1
    /\ \E w \in {WDraw(WUpdate(TheWorld, in), now + 1)} :
           /\ player' = w.player
           /\ moveNum' = w.moveNum
           /\ stopDeferred' = w.stopDeferred
           /\ SetQueue(w.q)
           /\ heap' = w.heap
           /\ message' = w.message
           /\ messageBirth' = w.messageBirth
           /\ lastGet' = w.lastGet
           /\ popped' = w.popped
           /\ assertFailed' = w.assertFailed
           /\ doubleFree' = w.doubleFree
           /\ useAfterFree' = w.useAfterFree
           /\ stderrDrop' = w.stderrDrop
           /\ putLost' = w.putLost
           /\ fullPut' = w.fullPut
           /\ interleaved' = w.interleaved
    /\ ticks' = ticks + 1
    /\ quiet' = IF in.click = NoClick /\ ~in.down /\ in.key # "D"
                THEN (IF quiet > PLAYER_VEL_TRANSITION_FRAMES THEN quiet ELSE quiet + 1)
                ELSE 0
    /\ lastOp' = "frame"
    /\ UNCHANGED pc

FrameNext == \E in \in FrameInputs : Frame(in)

FrameSpec == Init /\ [][FrameNext]_vars

----------------------------------------------------------------------------
(***************************************************************************)
(* Properties of the message queue.                                        *)
(***************************************************************************)

\* Number of messagesNew calls so far.
Pushed == Cardinality({b \in Blocks : heap[b] # "unalloc"})

\* The queue read from messagesIndex on, messagesLen entries.
Pending == [i \in 1..messagesLen |->
              messages[(messagesIndex + i - 1) % MAX_MESSAGES_LEN]]

\* A live block that neither the array nor the display timer refers to.
Leaked(b) == heap[b] = "live" /\ b \notin Stored(messages) /\ b # message

\* C1: the count stays within 0..MAX_MESSAGES_LEN after every sequence of
\* pushes and pops, pushes onto a full queue included.
CountWithinCapacity == messagesLen >= 0 /\ messagesLen <= MAX_MESSAGES_LEN

\* C2: after MAX_MESSAGES_LEN + 1 pushes onto the empty queue, with no pop
\* in between, the queue holds the last MAX_MESSAGES_LEN messages in push
\* order, and draining it returns exactly those, in that order.
OverflowKeepsNewest ==
    (Pushed = MAX_MESSAGES_LEN + 1 /\ ~interleaved) =>
        /\ popped = <<>> => Pending = [i \in 1..MAX_MESSAGES_LEN |-> i + 1]
        /\ messagesLen = 0 => popped = [i \in 1..MAX_MESSAGES_LEN |-> i + 1]

\* C3: every block that was allocated and not freed is in a slot of the
\* logical window or is the message of the display timer.
NoLeak ==
    \A b \in Blocks :
        heap[b] = "live" =>
            \/ b = message
            \/ \E s \in Window(TheQueue) : messages[s] = b

\* C4: every slot of the logical window holds a message.
WindowOwned ==
    \A i \in 0..(messagesLen - 1) :
        messages[(messagesIndex + i) % MAX_MESSAGES_LEN] # NULL

\* C5: every slot outside the logical window is NULL.
OutsideWindowNull ==
    \A s \in Slots \ Window(TheQueue) : messages[s] = NULL

\* C5 witness: the queue has overflowed (a block was overwritten), a pop has
\* moved messagesIndex, and some slot lies outside the window.
OutsideWindowNullWitness ==
    /\ \E b \in Blocks : Leaked(b)
    /\ messagesIndex # 0
    /\ messagesLen > 0
    /\ Slots \ Window(TheQueue) # {}

\* A step in which messagesGet is called on the empty queue.
GetOnEmpty == messagesLen = 0 /\ (Dequeue \/ (Draw /\ Expired))

\* C6: messagesGet on the empty queue returns NULL, changes neither the
\* array nor messagesIndex nor messagesLen, and does not trip the assert.
GetOnEmptyIsNoOp ==
    [][GetOnEmpty => /\ lastGet' = NULL
                     /\ UNCHANGED queueVars
                     /\ ~assertFailed']_vars

\* C6 witness: a queue that was used and drained, and then popped again.
GetOnEmptyWitness ==
    /\ lastOp = "get"
    /\ lastGet = NULL
    /\ messagesLen = 0
    /\ popped # <<>>
    /\ popped[Len(popped)] # NULL

\* C7: a push that makes a queued message vanish writes the DROPPING line.
DropReported == putLost => stderrDrop

\* C8: a clear loop that was entered ends, with the queue empty.
ClearTerminates == (pc = "drain") ~> (pc = "idle" /\ messagesLen = 0)

\* C8 witness: the clear command has returned after draining a queue that
\* had overflowed to MAX_MESSAGES_LEN + 1 entries.
ClearTerminatesWitness ==
    /\ pc = "idle"
    /\ lastOp = "clear"
    /\ messagesLen = 0
    /\ ~interleaved
    /\ Len(popped) = MAX_MESSAGES_LEN + 1

(***************************************************************************)
(* Properties of the player.                                               *)
(***************************************************************************)

\* C9: playerMove with the zero vector changes none of targetVel, vel, pos
\* and velTransitionTime.
ZeroMoveRejected ==
    [][PlayerMove(Vector2Zero) =>
          /\ player'.targetVel = player.targetVel
          /\ player'.vel = player.vel
          /\ player'.pos = player.pos
          /\ player'.velTransitionTime = player.velTransitionTime]_vars

\* C10: after a playerStop made while accelerating, with no playerMove
\* since, the countdown does not rest at 0: when it runs out the player is
\* decelerating (velTransitionTime = -1).
DeferredStopTakesEffect == stopDeferred => player.velTransitionTime # 0

\* The player p after k more playerUpdate calls.
RECURSIVE Ticked(_, _)
Ticked(p, k) == IF k = 0 THEN p ELSE Ticked(playerUpdate(p), k - 1)

Abs(x) == IF x < 0 THEN -x ELSE x

NormSq(v) == v[1] * v[1] + v[2] * v[2]

Max(a, b) == IF a > b THEN a ELSE b

\* C11: playerStop on an idle player (velTransitionTime = 0) sets
\* velTransitionTime to -1 and changes no other field; on a decelerating
\* player it changes nothing.
StopOnlyAtIdle ==
    [][PlayerStop =>
          /\ player.velTransitionTime = 0 =>
                 player' = [player EXCEPT !.velTransitionTime = -1]
          /\ player.velTransitionTime = -1 => player' = player]_vars

\* C11 witness: a player that moved, reached its target, was stopped while
\* idle and is decelerating at speed.
StopOnlyAtIdleWitness ==
    /\ moveNum > 0
    /\ player.velTransitionTime = -1
    /\ player.vel # Vector2Zero

\* C12: the acceleration ends on the target: when the countdown has run out
\* the velocity is the target velocity, the blend at t = 0 is the current
\* velocity, and the blend at t = 1 is the target velocity.
AccelerationEndsOnTarget ==
    /\ (moveNum > 0 /\ player.velTransitionTime = 0) => player.vel = player.targetVel
    /\ Vector2Polate(player.vel, player.targetVel, 0) = player.vel
    /\ Vector2Polate(player.vel, player.targetVel, PLAYER_VEL_TRANSITION_FRAMES)
           = player.targetVel

\* The target playerMove is asked to set for direction d, within the
\* rounding of the normalisation: d itself when it is no longer than maxVel,
\* else the vector of length maxVel along d.
IsClamped(p, d, target) ==
    IF NormSq(d) <= (p.maxVel * Unit) * (p.maxVel * Unit)
    THEN target = d
    ELSE \A i \in 1..2 :
            Abs(target[i] * Vector2Length(d) - d[i] * p.maxVel * Unit)
                <= p.maxVel * Vector2Length(d)

\* C16: playerMove with a non-zero direction leaves velTransitionTime = 30
\* whatever it was, sets targetVel to the clamped direction, and changes
\* neither vel nor pos.
MoveRestartsCountdown ==
    [][\A d \in Directions \ {Vector2Zero} :
          PlayerMove(d) =>
              /\ player'.velTransitionTime = PLAYER_VEL_TRANSITION_FRAMES
              /\ IsClamped(player, d, player'.targetVel)
              /\ player'.vel = player.vel
              /\ player'.pos = player.pos
              /\ player'.maxVel = player.maxVel
              /\ player'.radius = player.radius]_vars

\* C16 witness: a second playerMove made in the middle of the acceleration
\* the first one started, towards a clamped target.
MoveRestartsCountdownWitness ==
    /\ moveNum = 2
    /\ ticks > 0
    /\ ticks < PLAYER_VEL_TRANSITION_FRAMES
    /\ player.velTransitionTime = PLAYER_VEL_TRANSITION_FRAMES
    /\ player.vel # Vector2Zero
    /\ player.targetVel = <<6 * Unit, 8 * Unit>>

\* p is k ticks after a playerMove, and from here to tick T + 2 the
\* countdown is max(T - k, 0).
RECURSIVE CountsDown(_, _)
CountsDown(p, k) ==
    \/ k > PLAYER_VEL_TRANSITION_FRAMES + 2
    \/ /\ p.velTransitionTime = Max(PLAYER_VEL_TRANSITION_FRAMES - k, 0)
       /\ CountsDown(playerUpdate(p), k + 1)

\* C17: a tick of an accelerating player takes exactly one off the
\* countdown; k ticks after a playerMove the countdown is max(T - k, 0); a
\* tick never makes -1 out of another value; at countdown 0 a tick leaves
\* velocity and countdown as they are; every tick adds vel to pos.
CountdownByOne ==
    [][PlayerUpdate =>
          /\ player'.pos = <<player.pos[1] + player.vel[1],
                             player.pos[2] + player.vel[2]>>
          /\ player.velTransitionTime > 0 =>
                 player'.velTransitionTime = player.velTransitionTime - 1
          /\ player.velTransitionTime = 0 =>
                 /\ player'.velTransitionTime = 0
                 /\ player'.vel = player.vel
          /\ player'.velTransitionTime = -1 => player.velTransitionTime = -1
          /\ player.velTransitionTime = PLAYER_VEL_TRANSITION_FRAMES =>
                 CountsDown(player, 0)]_vars

\* C17 witness: setup, playerMove({10, 0}), then T + 1 ticks: the countdown
\* ran out and one more tick was held at speed.
CountdownByOneWitness ==
    /\ ticks = PLAYER_VEL_TRANSITION_FRAMES + 1
    /\ player = Ticked(playerMove(setup, <<10 * Unit, 0>>),
                       PLAYER_VEL_TRANSITION_FRAMES + 1)
    /\ player.velTransitionTime = 0
    /\ player.pos # Vector2Zero

\* A tick of a decelerating player.
DecelTick == LongUpdate /\ player.velTransitionTime = -1

\* C13 as stated: a tick of a decelerating player keeps the mode, takes
\* {10, 0} to {9, 0}, makes |vel| strictly smaller whenever vel is not zero,
\* and never makes it zero.
DecayStrictlyDecreases ==
    [][DecelTick =>
          /\ player'.velTransitionTime = -1
          /\ player.vel = <<10 * Unit, 0>> => player'.vel = <<9 * Unit, 0>>
          /\ player.vel # Vector2Zero =>
                 /\ NormSq(player'.vel) < NormSq(player.vel)
                 /\ player'.vel # Vector2Zero]_vars

\* C13 as amended: a tick of a decelerating player keeps the mode and
\* replaces vel by 0.9 * vel rounded to the nearest representable value;
\* {10, 0} becomes {9, 0}; |vel| never grows, gets strictly smaller whenever
\* the rounded product differs from vel, and never becomes zero.
DecayNeverGrows ==
    [][DecelTick =>
          /\ player'.velTransitionTime = -1
          /\ player.vel = <<10 * Unit, 0>> => player'.vel = <<9 * Unit, 0>>
          /\ \A i \in 1..2 : Abs(10 * player'.vel[i] - 9 * player.vel[i]) <= 5
          /\ NormSq(player'.vel) <= NormSq(player.vel)
          /\ player'.vel # player.vel => NormSq(player'.vel) < NormSq(player.vel)
          /\ player.vel # Vector2Zero => player'.vel # Vector2Zero]_vars

\* C13 witness: the player has decelerated from {10, 0} down to a velocity
\* that a further tick leaves as it is.
DecayNeverGrowsWitness ==
    /\ player.velTransitionTime = -1
    /\ player.targetVel = <<10 * Unit, 0>>
    /\ player.vel # Vector2Zero
    /\ player.vel[1] < Unit
    /\ Vector2Scale(player.vel, 9, 10) = player.vel

(***************************************************************************)
(* Properties of the display timer and of the ownership of messages.       *)
(***************************************************************************)

\* C14: the displayed message is a live block; it is replaced or released
\* only when more than MESSAGE_LIFE has passed since it was obtained; the
\* start time changes only when a pop obtains a message, to the current
\* time, more than MESSAGE_LIFE after the previous one; and a timer pop on
\* the empty queue blanks the display and keeps the start time.
DisplaySequential ==
    [][/\ message' # NULL => heap'[message'] = "live"
       /\ (message # NULL /\ message' # message) =>
              now - messageBirth > MESSAGE_LIFE
       /\ messageBirth' # messageBirth =>
              /\ message' # NULL
              /\ messageBirth' = now
              /\ messageBirth' - messageBirth > MESSAGE_LIFE
       /\ (Draw /\ Expired /\ messagesLen = 0) =>
              /\ message' = NULL
              /\ messageBirth' = messageBirth]_vars

\* C14 witness: the timer shows its second message while others wait.
DisplaySequentialWitness ==
    /\ lastOp = "draw"
    /\ message # NULL
    /\ messageBirth > 2 * MESSAGE_LIFE
    /\ \E b \in Blocks : b # message /\ heap[b] = "freed"
    /\ messagesLen > 0

\* The blocks 1 .. n in the order they were allocated.
PushOrder(n) == [i \in 1..n |-> i]

\* C18: as long as no push was made onto a queue of MAX_MESSAGES_LEN
\* messages, the messages popped so far followed by the messages pending,
\* read from messagesIndex on modulo MAX_MESSAGES_LEN, are all the messages
\* pushed, in push order.
FifoAcrossWrap ==
    ~fullPut => /\ messagesLen <= MAX_MESSAGES_LEN
                /\ popped \o Pending = PushOrder(Pushed)

\* C18 witness: more messages were pushed than the array holds, none onto
\* a full queue, and the window wraps past the last slot.
FifoAcrossWrapWitness ==
    /\ ~fullPut
    /\ Pushed > MAX_MESSAGES_LEN
    /\ messagesLen >= 2
    /\ messagesIndex + messagesLen > MAX_MESSAGES_LEN

\* C20: no block is freed twice, draw() reads no freed block, and no slot
\* refers to a block that was handed out: not to a freed one, and not to
\* the message of the display timer.
NoDoubleFreeNoUseAfterFree ==
    /\ ~doubleFree
    /\ ~useAfterFree
    /\ \A b \in Stored(messages) : heap[b] = "live" /\ b # message
    /\ message # NULL => heap[message] = "live"

\* C20 witness: after an overflow, a manual dequeue and a clear, the timer
\* has freed one message and shows the next while others wait.
NoDoubleFreeWitness ==
    /\ fullPut
    /\ lastOp = "draw"
    /\ message # NULL
    /\ messagesLen > 0
    /\ Cardinality({b \in Blocks : heap[b] = "freed"}) >= 3

(***************************************************************************)
(* Properties of the frame loop.                                           *)
(***************************************************************************)

\* update() with the input handled before the tick.
WInputThenTick(w, in) ==
    LET w2 == IF in.click # NoClick THEN WClick(w, in.click) ELSE w
        w3 == IF ~in.down THEN WStop(w2) ELSE w2
    IN  WTick(WKey(w3, in.key))

\* C15: a frame handles the input first, then ticks the player once, then
\* runs the message timer: the player after the frame is the player the
\* tick makes of the player the input left.
InputBeforeTick ==
    [][\A in \in FrameInputs :
          Frame(in) => player' = WInputThenTick(TheWorld, in).player]_vars

\* C19: after T + 1 frames in a row without movement input the player is
\* decelerating, and a frame takes the player out of deceleration only by
\* a playerMove.
QuietFramesDecelerate ==
    [][/\ quiet' > PLAYER_VEL_TRANSITION_FRAMES => player'.velTransitionTime = -1
       /\ (player.velTransitionTime = -1 /\ player'.velTransitionTime # -1) =>
              moveNum' > moveNum]_vars

\* C19 witness: the player was sent off, then T + 1 frames passed without
\* movement input, and it is decelerating at speed.
QuietFramesDecelerateWitness ==
    /\ moveNum > 0
    /\ quiet = PLAYER_VEL_TRANSITION_FRAMES + 1
    /\ player.velTransitionTime = -1
    /\ player.vel # Vector2Zero

====
